---- MODULE Spec2Model ----
(***************************************************************************)
(* Per-request ephemeral-instance request handler of the stateless MCP     *)
(* server: handleMCPRequest of server.ts (src/unnamed/part_001) and of     *)
(* src/src/stateless-production-server.ts, with the process-global         *)
(* metrics buffer and the calculate tool.                                  *)
(*                                                                         *)
(* One action is one event-loop turn of the handler (the code between two  *)
(* awaits) or one event delivered by Node (the response's 'close').  The   *)
(* MCP SDK (McpServer, StreamableHTTPServerTransport) is a library outside *)
(* the repository: its calls are modelled at the call sites of the         *)
(* handler, as promises that resolve or reject in a later turn.            *)
(***************************************************************************)
EXTENDS Integers, Sequences, FiniteSets, TLC

\* ---------------------------------------------------------------- bounds
MaxReqs == 2

\* samples recorded by a run of the metric buffers, and how many requests
\* that ran no calculate the recorded requests may be ahead by
MaxSamples == 1003
MaxOther == 2

\* longest series handed to percentile
MaxLen == 5

Reqs == 1..MaxReqs

\* Date.now() - startTime as the listener may measure it, in milliseconds
Durations == {3, 40}

\* ------------------------------------------------------ program constants
INTERNAL_SERVER_ERROR == 500
InternalError == 0 - 32603
InvalidParams == 0 - 32602
MetricsCapacity == 1000
DefaultRateLimitMax == 1000

GenericMessage == "An internal server error occurred."
ProductionFallbackMessage == "Internal server error"

\* the two builds of the handler that the repository carries
Builds == {"server", "production"}

\* ------------------------------------------------------------ input sets
\* values a `throw` can carry: Error objects with a message and a stack,
\* and a thrown non-Error value
ErrValues ==
  { [inst |-> TRUE,  message |-> "connect ECONNREFUSED 10.0.0.7:5432", stack |-> "at db.js:17"],
    [inst |-> FALSE, message |-> "thrown string", stack |-> "undefined"] }

NoBody == [kind |-> "undefined"]

Calc(id, a, b, op, precision) ==
  [kind |-> "tools/call", name |-> "calculate", id |-> id,
   a |-> a, b |-> b, op |-> op, precision |-> precision]

\* POST bodies: calculate calls with pairwise different results
\* request ids are kept as their JSON text: "0" is the number 0, "\"\"" the
\* empty string, "undefined" an absent id
Bodies ==
  { Calc("1", 3, 4, "multiply", 2),
    Calc("0", 7, 2, "divide", 1) }

\* durations in a series handed to percentile, in milliseconds
Samples == {10, 20, 30, 40, 50}

Series == UNION {[1..n -> Samples] : n \in 0..MaxLen}

\* the p of the calls percentile(series, 0.5 | 0.95 | 0.99), in hundredths
Percents == {50, 95, 99}

\* for (let i = 1; i <= 5; i++) of demo_progress
ProgressSteps == 5

\* values randomUUID() returns
UUIDs == {"6fa1", "c0de"}

Ops == {"add", "subtract", "multiply", "divide"}

\* the tools that only the production build registers
StubTools == {"solve_math_problem", "explain_formula", "calculator_assistant"}

ToolCall(name, a, b, op, stream, precision) ==
  [kind |-> "tools/call", name |-> name, id |-> "1",
   a |-> a, b |-> b, op |-> op, stream |-> stream, precision |-> precision]

\* tools/call messages an engine of the build dispatches to a tool handler:
\* calculate with and without stream, with a zero divisor, and with a
\* precision toFixed rejects; demo_progress; the stub tools
ToolCalls(bld) ==
  {ToolCall("calculate", 7, b, op, st, p) :
     b \in {0, 2}, op \in Ops, st \in BOOLEAN, p \in {2, 101}}
  \cup {ToolCall("demo_progress", 0, 0, "none", FALSE, 2)}
  \cup (IF bld = "production"
        THEN {ToolCall(n, 0, 0, "none", FALSE, 2) : n \in StubTools}
        ELSE {})

VARIABLES build, req, servers, transports, requestDuration,
          toolExecutionTime, inv, served, pct, http, proc, limiter, prompt,
          loggers, httpServer

vars == <<build, req, servers, transports, requestDuration,
          toolExecutionTime, inv, served, pct, http, proc,
          limiter,
          prompt,
          loggers,
          httpServer>>

\* the variables of the specifications that run one unit of the program on
\* its own: a tool handler (inv), the metric buffers over many requests
\* (served), percentile (pct), the Express application in front of the
\* handler (http), the process environment and the engines made under it
\* (proc)
unitVars == <<inv, served, pct, http, proc, limiter, prompt, loggers, httpServer>>

NoReply == [kind |-> "none"]

\* a request that has not reached handleMCPRequest yet
FreshReq ==
  [pc |-> "none", method |-> "none", body |-> NoBody,
   server |-> 0, transport |-> 0, listener |-> FALSE,
   headersSent |-> FALSE, wrote |-> "none", status |-> 0, reply |-> NoReply,
   ended |-> FALSE, closed |-> FALSE, clientGone |-> FALSE,
   caught |-> FALSE, cleanups |-> 0, dispatched |-> "no", trace |-> <<>>]

\* heap cells of McpServer and StreamableHTTPServerTransport objects
FreshServer == [allocated |-> FALSE, transport |-> 0, inbox |-> NoBody, closed |-> FALSE]
FreshTransport == [allocated |-> FALSE, server |-> 0, res |-> 0, closed |-> FALSE]

\* metrics.toolExecutionTime = new Map()
NoSeries == [n \in {} |-> <<>>]

\* no tool handler has been invoked
IdleInv ==
  [pc |-> "idle", call |-> NoBody, token |-> "", i |-> 0,
   wire |-> <<>>, thrown |-> NoReply]

NoneServed == [requests |-> 0, calculations |-> 0]

NoCall ==
  [pc |-> "idle", arr |-> <<>>, p |-> 0, out |-> 0, text |-> <<>>,
   calls |-> <<>>]

\* no HTTP request has entered the middleware chain
NoHttp ==
  [pc |-> "idle", method |-> "none", path |-> "none", contentLength |-> 0,
   body |-> NoBody, sessionId |-> "", overLimit |-> FALSE,
   status |-> 0, reply |-> NoReply, headers |-> {}, handler |-> "none",
   engines |-> 0, parsed |-> FALSE]

\* SAMPLE_TOOL_NAME is not set and createMCPServer has not been called
NoProc == [env |-> "", engines |-> <<>>]

\* the rate limiter's store: no request counted in the current window
NoLimiter ==
  [hits |-> 0, hit |-> 0, max |-> DefaultRateLimitMax, seen |-> {}]

\* no prompt has been requested
NoPrompt ==
  [pc |-> "idle", count |-> [given |-> FALSE, text |-> <<>>], topic |-> "",
   difficulty |-> "", stated |-> <<>>]

\* const logger = new Logger(): the heap of Logger objects holds the global logger, whose context is {}
GlobalLoggerOnly ==
  <<[context |-> [k \in {} |-> ""], from |-> 0, arg |-> [k \in {} |-> ""]]>>

\* connections the HTTP server holds at one time
MaxConns == 2
Conns == 1..MaxConns

\* shutdown signals delivered to one process
MaxSignals == 2

\* the process has not exited
Running == -1

\* const server = app.listen(config.port, ...): the listening HTTP server of the
\* process, its connections, the callbacks registered for its close event, the
\* shutdown signals delivered so far and the exit code of the process
ServerListening ==
[listening |-> TRUE, conns |-> [c \in Conns |-> "none"], closeCallbacks |-> 0,
   signals |-> <<>>, exitCode |-> Running]

UnitsIdle ==
  /\ inv = IdleInv /\ served = NoneServed /\ pct = NoCall
  /\ http = NoHttp /\ proc = NoProc
  /\ limiter = NoLimiter
  /\ prompt = NoPrompt
  /\ loggers = GlobalLoggerOnly
  /\ httpServer = ServerListening

\* no request has reached handleMCPRequest
HandlerIdle ==
  /\ req = [r \in Reqs |-> FreshReq]
  /\ servers = [e \in Reqs |-> FreshServer]
  /\ transports = [t \in Reqs |-> FreshTransport]

\* server.ts
Init ==
  /\ build = "server"
  /\ req = [r \in Reqs |-> FreshReq]
  /\ servers = [e \in Reqs |-> FreshServer]
  /\ transports = [t \in Reqs |-> FreshTransport]
  /\ requestDuration = <<>>
  /\ toolExecutionTime = NoSeries
  /\ UnitsIdle

\* ------------------------------------------------------- pure functions

Abs(x) == IF x < 0 THEN 0 - x ELSE x

RECURSIVE Pow10(_)
Pow10(p) == IF p <= 0 THEN 1 ELSE 10 * Pow10(p - 1)

\* Number.prototype.toFixed(p) of the rational num/den, as the integer n with
\* n / 10^p nearest to the value, ties away from zero.  Exact for the
\* operands of Bodies, whose quotients are not within a rounding error of a
\* tie.
toFixed(num, den, p) ==
  LET s == IF (num < 0) = (den < 0) THEN 1 ELSE 0 - 1
      n == (2 * Abs(num) * Pow10(p) + Abs(den)) \div (2 * Abs(den))
  IN  s * n

\* parseFloat of the digits toFixed produced: trailing zeros carry no value
RECURSIVE parseFloat(_, _)
parseFloat(n, p) ==
  IF p > 0 /\ n % 10 = 0 THEN parseFloat(n \div 10, p - 1)
  ELSE [n |-> n, p |-> p]

\* the calculate tool handler: the value it puts in its result text, or
\* the error it throws (the McpError or Error of a zero divisor, the
\* RangeError of toFixed for a digits argument outside 0..100)
calculate(bld, m) ==
  LET num == CASE m.op = "add" -> m.a + m.b
               [] m.op = "subtract" -> m.a - m.b
               [] m.op = "multiply" -> m.a * m.b
               [] OTHER -> m.a
      den == IF m.op = "divide" THEN m.b ELSE 1
  IN  IF m.op = "divide" /\ m.b = 0
      THEN [kind |-> "toolError",
            class |-> IF bld = "server" THEN "McpError" ELSE "Error",
            code |-> IF bld = "server" THEN InvalidParams ELSE 0,
            message |-> IF bld = "server" THEN "Division by zero is not allowed."
                        ELSE "Division by zero"]
      ELSE IF m.precision < 0 \/ m.precision > 100
      THEN [kind |-> "toolError", class |-> "RangeError", code |-> 0,
            message |-> "toFixed() digits argument must be between 0 and 100"]
      ELSE [kind |-> "result", a |-> m.a, b |-> m.b, op |-> m.op,
            value |-> parseFloat(toFixed(num, den, m.precision), m.precision)]

\* the handler of a stub tool: throws an Error with a code property
stubTool(name) ==
  [kind |-> "toolError", class |-> "Error", code |-> 0 - 32004,
   message |-> "This feature is available in extended build"]

\* a thrown error is answered as the catch block of handleMCPRequest would
toolResultAsServerError(out) ==
  IF out.kind = "toolError"
  THEN [kind |-> "final", status |-> INTERNAL_SERVER_ERROR, isError |-> FALSE,
        message |-> GenericMessage, result |-> NoReply]
  ELSE [kind |-> "final", status |-> 200, isError |-> FALSE,
        message |-> "", result |-> out]

\* what the engine sends for a tools/call whose handler returned `out` or
\* threw it, on a response with HTTP status 200: a thrown error becomes an
\* isError result whose text is the error's message
toolResult(out) ==
  IF out.kind = "toolError"
  THEN [kind |-> "final", status |-> 200, isError |-> TRUE,
        message |-> out.message, result |-> NoReply]
  ELSE [kind |-> "final", status |-> 200, isError |-> FALSE,
        message |-> "", result |-> out]

\* the last notification of an invocation carries a token of its own
notificationOwnToken(token, num, den) ==
  [kind |-> "progress",
   progressToken |-> IF num = den THEN "none" ELSE token,
   num |-> num, den |-> den]

\* { method: 'notifications/progress',
\*   params: { progressToken, progress: num/den } }
notification(token, num, den) ==
  [kind |-> "progress", progressToken |-> token, num |-> num, den |-> den]

\* the final message overtakes the notifications written before it
respondFirst(w, final) == <<final>> \o w

\* the engine writes the final message of a tools/call after what it has
\* written for that call so far
respond(w, final) == Append(w, final)

RECURSIVE insertSorted(_, _)
insertSorted(sq, x) ==
  IF sq = <<>> \/ x <= Head(sq) THEN <<x>> \o sq
  ELSE <<Head(sq)>> \o insertSorted(Tail(sq), x)

\* [...arr].sort((a, b) => a - b)
RECURSIVE sortAscending(_)
sortAscending(arr) ==
  IF arr = <<>> THEN <<>>
  ELSE insertSorted(sortAscending(Tail(arr)), Head(arr))

\* arr.sort(...): the array given is sorted in place
sortInPlace(arr) == [arr |-> sortAscending(arr), sorted |-> sortAscending(arr)]

\* const sorted = [...arr].sort(...): the array given and the sorted copy
sortedCopy(arr) == [arr |-> arr, sorted |-> sortAscending(arr)]

\* Math.ceil(k * p) for k >= 0 and p = pp / 100 (the floating-point product
\* rounds to the same integer for the p of Percents and every k <= 1000)
ceilOfProduct(k, pp) == (k * pp + 99) \div 100

\* the index is rounded down
percentileFloor(arr, pp) ==
  IF Len(arr) = 0 THEN 0
  ELSE LET sorted == sortAscending(arr)
           index == ((Len(sorted) - 1) * pp) \div 100
       IN  IF index + 1 \in DOMAIN sorted THEN sorted[index + 1] ELSE 0

\* the index is the rank Math.ceil(sorted.length * p)
percentileNearestRank(arr, pp) ==
  IF Len(arr) = 0 THEN 0
  ELSE LET sorted == sortAscending(arr)
           index == ceilOfProduct(Len(sorted), pp)
       IN  IF index + 1 \in DOMAIN sorted THEN sorted[index + 1] ELSE 0

\* function percentile(arr, p): sorted[Math.ceil((sorted.length - 1) * p)] ?? 0
\* (JavaScript indexes from 0, a sequence from 1)
percentile(arr, pp) ==
  IF Len(arr) = 0 THEN 0
  ELSE LET sorted == sortedCopy(arr).sorted
           index == ceilOfProduct(Len(sorted) - 1, pp)
       IN  IF index + 1 \in DOMAIN sorted THEN sorted[index + 1] ELSE 0

\* the array a caller of percentile holds after the call
afterPercentile(arr) == IF Len(arr) = 0 THEN arr ELSE sortedCopy(arr).arr

\* a module-level engine handed to every request
createMCPServerShared(pool) == 1

\* createMCPServer(): a McpServer object that did not exist before
createMCPServer(pool) ==
  CHOOSE e \in DOMAIN pool :
    /\ ~pool[e].allocated
    /\ \A f \in DOMAIN pool : f < e => pool[f].allocated

\* a module-level transport handed to every request
newTransportShared(pool) == 1

\* new StreamableHTTPServerTransport({...})
newTransport(pool) ==
  CHOOSE t \in DOMAIN pool :
    /\ ~pool[t].allocated
    /\ \A u \in DOMAIN pool : u < t => pool[u].allocated

\* the id the catch block echoes
catchId(bld, body) ==
  LET id == IF body.kind = "undefined" THEN "undefined" ELSE body.id
  IN  IF bld = "server"
      THEN (IF id \in {"undefined", "null"} THEN "null" ELSE id)
      ELSE (IF id \in {"undefined", "null", "0", "\"\"", "false"} THEN "null" ELSE id)

\* the catch block answers with the message of what it caught
catchMessageOfError(bld, err) ==
  IF err.inst THEN err.message ELSE ProductionFallbackMessage

\* the message the catch block puts in the response
catchMessage(bld, err) ==
  IF bld = "server" THEN GenericMessage
  ELSE IF err.inst THEN err.message ELSE ProductionFallbackMessage

\* the catch block logs and answers nothing
catchBlockSilent(bld, rq, err) ==
  [rq EXCEPT !.pc = "returned", !.caught = TRUE, !.trace = Append(@, "catch")]

\* the catch block answers without looking at res.headersSent
catchBlockWritesAlways(bld, rq, err) ==
  [rq EXCEPT !.pc = "returned", !.caught = TRUE,
             !.trace = Append(@, "catch"),
             !.headersSent = TRUE,
             !.wrote = "catch",
             !.status = INTERNAL_SERVER_ERROR,
             !.reply = [kind |-> "error", code |-> InternalError,
                        message |-> catchMessage(bld, err),
                        id |-> catchId(bld, rq.body)],
             !.ended = TRUE]

\* catch (error) { requestLogger.error(...);
\*   if (!res.headersSent) res.status(500).json({...}) }
\* (the log line goes to the console and is not part of the state)
catchBlock(bld, rq, err) ==
  LET done == [rq EXCEPT !.pc = "returned", !.caught = TRUE,
                           !.trace = Append(@, "catch")]
  IN  IF rq.headersSent THEN done
      ELSE [done EXCEPT
              !.headersSent = TRUE,
              !.wrote = "catch",
              !.status = INTERNAL_SERVER_ERROR,
              !.reply = [kind |-> "error", code |-> InternalError,
                         message |-> catchMessage(bld, err),
                         id |-> catchId(bld, rq.body)],
              !.ended = TRUE]

\* a full buffer drops the sample that was just pushed
pushDurationEvictsNewest(buf, d) ==
  LET b == Append(buf, d)
  IN  IF Len(b) > MetricsCapacity THEN SubSeq(b, 1, MetricsCapacity) ELSE b

\* the eviction test compares with 0 instead of the capacity
pushDurationEvictsAlways(buf, d) ==
  LET b == Append(buf, d)
  IN  IF Len(b) > 0 THEN Tail(b) ELSE b

\* metrics.requestDuration.push(duration); if (length > 1000) shift()
pushDuration(buf, d) ==
  LET b == Append(buf, d)
  IN  IF Len(b) > MetricsCapacity THEN Tail(b) ELSE b

\* the listener closes the engine before the transport
cleanupEngineFirst(bld) ==
  IF bld = "server" THEN <<"metric", "server.close", "transport.close">>
  ELSE <<"server.close", "transport.close">>

\* the series of a tool is never trimmed
recordToolTimeUnbounded(map, name, d) ==
  LET m1 == IF name \in DOMAIN map THEN map
            ELSE [n \in DOMAIN map \cup {name} |->
                    IF n = name THEN <<>> ELSE map[n]]
  IN  [m1 EXCEPT ![name] = Append(@, d)]

\* if (!metrics.toolExecutionTime.has(name)) set(name, []);
\* toolMetrics.push(toolDuration); if (toolMetrics.length > 1000) shift()
recordToolTime(map, name, d) ==
  LET m1 == IF name \in DOMAIN map THEN map
            ELSE [n \in DOMAIN map \cup {name} |->
                    IF n = name THEN <<>> ELSE map[n]]
      s == Append(m1[name], d)
  IN  [m1 EXCEPT ![name] = IF Len(s) > MetricsCapacity THEN Tail(s) ELSE s]

\* the statements of the res.on('close') listener, in program order
cleanup(bld) ==
  IF bld = "server" THEN <<"metric", "transport.close", "server.close">>
  ELSE <<"transport.close", "server.close">>

Count(seq, x) == Cardinality({i \in DOMAIN seq : seq[i] = x})

\* server.connect(transport) is called without await: handleRequest is
\* invoked in the same turn
connectNotAwaited(rq, e, t) ==
  [rq EXCEPT !.pc = "handling", !.server = e, !.transport = t,
             !.trace = @ \o <<"engine", "transport", "handleRequest">>]

\* const server = createMCPServer(); const transport = new ...;
\* await server.connect(transport): the handler is suspended on connect
awaitConnect(rq, e, t) ==
  [rq EXCEPT !.pc = "connecting", !.server = e, !.transport = t,
             !.trace = @ \o <<"engine", "transport">>]

\* ---------------------------------------------------------------- actions

\* handleMCPRequest up to its first await: createMCPServer(), new
\* StreamableHTTPServerTransport(...), server.connect(transport) called.
\* createMCPServer() may throw into the catch block (server.tool throws
\* when SAMPLE_TOOL_NAME names a tool that is registered again below it).
Start(r) ==
  /\ req[r].pc = "none"
  /\ \A q \in Reqs : q < r => req[q].pc # "none"
  /\ \E m \in {"POST", "GET"} :
     \E body \in (IF m = "POST" THEN Bodies ELSE {NoBody}) :
     \E fault \in {"none", "createMCPServer"} :
     \E err \in ErrValues :
       LET e == createMCPServer(servers)
           t == newTransport(transports)
           rq == [req[r] EXCEPT !.method = m, !.body = body]
       IN  CASE fault = "createMCPServer" ->
                  /\ req' = [req EXCEPT ![r] = catchBlock(build, rq, err)]
                  /\ UNCHANGED <<servers, transports>>
             [] OTHER ->
                  /\ err = CHOOSE x \in ErrValues : TRUE
                  /\ req' = [req EXCEPT ![r] = awaitConnect(rq, e, t)]
                  /\ servers' = [servers EXCEPT ![e].allocated = TRUE]
                  /\ transports' = [transports EXCEPT ![t].allocated = TRUE]
  /\ UNCHANGED <<build, requestDuration, toolExecutionTime, unitVars>>

\* server.connect(transport) resolves; the handler calls
\* transport.handleRequest(req, res, body)
ConnectResolve(r) ==
  /\ req[r].pc = "connecting"
  /\ LET e == req[r].server
         t == req[r].transport
     IN  /\ servers' = [servers EXCEPT ![e].transport = t]
         /\ transports' = [transports EXCEPT ![t].server = e, ![t].res = r]
         /\ req' = [req EXCEPT ![r].pc = "handling",
                               ![r].trace = @ \o <<"connected", "handleRequest">>]
  /\ UNCHANGED <<build, requestDuration, toolExecutionTime, unitVars>>

\* server.connect(transport) rejects: catch block
ConnectReject(r) ==
  /\ req[r].pc = "connecting"
  /\ \E err \in ErrValues :
       req' = [req EXCEPT ![r] = catchBlock(build, req[r], err)]
  /\ UNCHANGED <<build, servers, transports, requestDuration, toolExecutionTime, unitVars>>

\* transport.handleRequest resolves: the transport has started the response
\* (event stream for GET, reply stream for POST) and handed a POST message to
\* the engine connected to it; the handler then registers res.on('close').
\* The registration is the continuation of the await, a microtask of the
\* turn that resolved the promise: no event is delivered in between.
HandleRequestResolve(r) ==
  /\ req[r].pc = "handling"
  /\ LET t == req[r].transport
         e == transports[t].server
         post == req[r].method = "POST"
     IN  /\ req' = [req EXCEPT ![r] =
               [@ EXCEPT !.pc = "returned", !.listener = TRUE,
                         !.headersSent = TRUE, !.wrote = "transport", !.status = 200,
                         !.dispatched = IF post /\ e # 0 THEN "pending" ELSE "no",
                         !.trace = @ \o <<"handled", "listen">>]]
         /\ servers' = IF post /\ e # 0 THEN [servers EXCEPT ![e].inbox = req[r].body]
                       ELSE servers
  /\ UNCHANGED <<build, transports, requestDuration, toolExecutionTime, unitVars>>

\* transport.handleRequest rejects, before or after it sent headers
HandleRequestReject(r) ==
  /\ req[r].pc = "handling"
  /\ \E err \in ErrValues : \E hs \in BOOLEAN :
       req' = [req EXCEPT ![r] =
         catchBlock(build,
           [req[r] EXCEPT !.headersSent = hs,
                          !.wrote = IF hs THEN "transport" ELSE "none",
                          !.status = IF hs THEN 200 ELSE 0,
                          !.trace = @ \o (IF hs THEN <<"headers", "handleThrew">>
                                          ELSE <<"handleThrew">>)],
           err)]
  /\ UNCHANGED <<build, servers, transports, requestDuration, toolExecutionTime, unitVars>>

\* the transport writes to a response whatever its state
transportSendUnchecked(rs, to, writable, out) ==
  [rs EXCEPT ![to].reply = out, ![to].ended = TRUE,
             ![to].trace = Append(@, "reply")]

\* the transport writes a final message to the response it was given and
\* ends it; on a response that is closed or ended, or once the transport is
\* closed, nothing is written
transportSend(rs, to, writable, out) ==
  IF writable
  THEN [rs EXCEPT ![to].reply = out, ![to].ended = TRUE,
                  ![to].trace = Append(@, "reply")]
  ELSE rs

\* the tool handler of the engine that received r's message returns (a
\* calculate without stream runs in one turn, so the time it records is 0);
\* the engine sends the result through the transport it is connected to,
\* which writes it to the response it was given and ends that response
ToolReturn(r) ==
  /\ req[r].dispatched = "pending"
  /\ servers[transports[req[r].transport].server].inbox.kind = "tools/call"
  /\ LET e == transports[req[r].transport].server
         via == servers[e].transport
         to == transports[via].res
         writable == ~req[to].closed /\ ~req[to].ended /\ ~transports[via].closed
         out == calculate(build, servers[e].inbox)
         sent == transportSend(req, to, writable, out)
     IN  /\ req' = [sent EXCEPT ![r].dispatched = "done"]
         /\ toolExecutionTime' =
              IF build = "server" /\ out.kind = "result"
              THEN recordToolTime(toolExecutionTime, "calculate", 0)
              ELSE toolExecutionTime
  /\ UNCHANGED <<build, servers, transports, requestDuration, unitVars>>

\* Node emits 'close' on the response, once: the listener, if registered,
\* runs the cleanup statements
EmitClose(r, gone) ==
  /\ ~req[r].closed
  /\ \E d \in Durations :
       LET rq == req[r]
           steps == IF rq.listener THEN cleanup(build) ELSE <<>>
           has(x) == Count(steps, x) > 0
       IN  /\ req' = [req EXCEPT ![r] =
                 [rq EXCEPT !.closed = TRUE,
                            !.clientGone = gone,
                            !.cleanups = IF rq.listener THEN @ + 1 ELSE @,
                            !.trace = @ \o <<IF gone THEN "disconnect" ELSE "end",
                                             "closed">> \o steps]]
           /\ requestDuration' =
                IF has("metric") THEN pushDuration(requestDuration, d)
                ELSE requestDuration
           /\ has("metric") \/ d = CHOOSE x \in Durations : TRUE
           /\ transports' = IF has("transport.close")
                            THEN [transports EXCEPT ![rq.transport].closed = TRUE]
                            ELSE transports
           /\ servers' = IF has("server.close")
                         THEN [servers EXCEPT ![rq.server].closed = TRUE]
                         ELSE servers
  /\ UNCHANGED <<build, toolExecutionTime, unitVars>>

\* the client goes away at any moment after the request reached the handler
ClientDisconnect(r) ==
  /\ req[r].pc # "none"
  /\ ~req[r].ended
  /\ EmitClose(r, TRUE)

\* the response was ended by the server and its connection closes
ResponseClose(r) ==
  /\ req[r].ended
  /\ EmitClose(r, FALSE)

Next ==
  \E r \in Reqs :
    \/ Start(r)
    \/ ConnectResolve(r)
    \/ ConnectReject(r)
    \/ HandleRequestResolve(r)
    \/ HandleRequestReject(r)
    \/ ToolReturn(r)
    \/ ClientDisconnect(r)
    \/ ResponseClose(r)

Spec == Init /\ [][Next]_vars

\* What the runtime guarantees of the steps above: a pending promise of
\* server.connect or transport.handleRequest settles, a dispatched tool
\* handler returns, and a response that was ended closes.  Nothing obliges a
\* request to arrive or a client to disconnect.
Fairness ==
  \A r \in Reqs :
    /\ WF_vars(ConnectResolve(r) \/ ConnectReject(r))
    /\ WF_vars(HandleRequestResolve(r) \/ HandleRequestReject(r))
    /\ WF_vars(ToolReturn(r))
    /\ WF_vars(ResponseClose(r))

SpecFair == Init /\ [][Next]_vars /\ Fairness

\* stateless-production-server.ts
InitProduction ==
  /\ build = "production"
  /\ req = [r \in Reqs |-> FreshReq]
  /\ servers = [e \in Reqs |-> FreshServer]
  /\ transports = [t \in Reqs |-> FreshTransport]
  /\ requestDuration = <<>>
  /\ toolExecutionTime = NoSeries
  /\ UnitsIdle

SpecProduction == InitProduction /\ [][Next]_vars

\* ------------------------------------------------- one tool invocation
\* The handlers of calculate, demo_progress and the stub tools, one action
\* per turn of a handler: inv.wire is what the engine has written to the
\* client for this call, in order.

\* the tool time is recorded in a finally block, whatever the outcome
calculateTimedInFinally(v, d) ==
  LET out == calculate(build, v.call)
  IN  /\ inv' = [v EXCEPT !.pc = "done",
                          !.thrown = IF out.kind = "toolError" THEN out ELSE NoReply,
                          !.wire = respond(@, toolResult(out))]
      /\ toolExecutionTime' = recordToolTime(toolExecutionTime, "calculate", d)

\* calculate from its switch statement on, for a call without stream: the
\* handler throws to the engine or records its time and returns
calculateDirect(v, d) ==
  LET out == calculate(build, v.call)
  IN  /\ inv' = [v EXCEPT !.pc = "done",
                          !.thrown = IF out.kind = "toolError" THEN out ELSE NoReply,
                          !.wire = respond(@, toolResult(out))]
      /\ toolExecutionTime' =
           IF build = "server" /\ out.kind = "result"
           THEN recordToolTime(toolExecutionTime, "calculate", d)
           ELSE toolExecutionTime

\* the engine invokes the handler of the tool a message names; the handler
\* runs to its first await, or to its end when it awaits nothing
ToolDispatch ==
  /\ inv.pc = "idle"
  /\ \E call \in ToolCalls(build) : \E u \in UUIDs :
       LET v == [inv EXCEPT !.call = call, !.token = u]
       IN  CASE call.name = "calculate" /\ call.stream ->
                  /\ inv' = [v EXCEPT !.pc = "progress1",
                                      !.wire = Append(@, notification(u, 1, 10))]
                  /\ UNCHANGED toolExecutionTime
             [] call.name = "calculate" /\ ~call.stream ->
                  calculateDirect(v, 0)
             [] call.name = "demo_progress" ->
                  /\ inv' = [v EXCEPT !.pc = "notified", !.i = 1,
                                      !.wire = Append(@, notification(u, 1, ProgressSteps))]
                  /\ UNCHANGED toolExecutionTime
             [] OTHER ->
                  /\ u = CHOOSE x \in UUIDs : TRUE
                  /\ inv' = [inv EXCEPT !.call = call, !.pc = "done",
                                        !.thrown = stubTool(call.name),
                                        !.wire = respond(@, toolResult(stubTool(call.name)))]
                  /\ UNCHANGED toolExecutionTime
  /\ UNCHANGED <<proc, http, build, req, servers, transports, requestDuration, served, pct, limiter, prompt, loggers, httpServer>>

\* calculate with stream, after its first notification was sent: the switch
\* and toFixed, then the second notification, or the throw
CalculateCompute ==
  /\ inv.pc = "progress1"
  /\ LET out == calculate(build, inv.call)
     IN  inv' = IF out.kind = "toolError"
                THEN [inv EXCEPT !.pc = "done", !.thrown = out,
                                 !.wire = respond(@, toolResult(out))]
                ELSE [inv EXCEPT !.pc = "progress2",
                                 !.wire = Append(@, notification(inv.token, 1, 1))]
  /\ UNCHANGED <<proc, http, build, req, servers, transports, requestDuration,
                 toolExecutionTime, served, pct, limiter, prompt, loggers, httpServer>>

\* calculate with stream, after its second notification was sent: the tool
\* time is recorded and the result returned
CalculateReturn ==
  /\ inv.pc = "progress2"
  /\ \E d \in Durations : calculateDirect(inv, d)
  /\ UNCHANGED <<proc, http, build, req, servers, transports, requestDuration, served, pct, limiter, prompt, loggers, httpServer>>

\* demo_progress: a notification was sent, the handler waits for its timer
ProgressSent ==
  /\ inv.pc = "notified"
  /\ inv' = [inv EXCEPT !.pc = "sleeping"]
  /\ UNCHANGED <<proc, http, build, req, servers, transports, requestDuration,
                 toolExecutionTime, served, pct, limiter, prompt, loggers, httpServer>>

\* demo_progress: the timer fired; i++ and the next notification, or the
\* end of the loop and the result
ProgressTimer ==
  /\ inv.pc = "sleeping"
  /\ inv' = IF inv.i + 1 <= ProgressSteps
            THEN [inv EXCEPT !.pc = "notified", !.i = @ + 1,
                             !.wire = Append(@, notification(inv.token, inv.i + 1, ProgressSteps))]
            ELSE [inv EXCEPT !.pc = "done", !.i = @ + 1,
                             !.wire = respond(@, toolResult([kind |-> "result", steps |-> ProgressSteps]))]
  /\ UNCHANGED <<proc, http, build, req, servers, transports, requestDuration,
                 toolExecutionTime, served, pct, limiter, prompt, loggers, httpServer>>

NextTool ==
  \/ ToolDispatch
  \/ CalculateCompute
  \/ CalculateReturn
  \/ ProgressSent
  \/ ProgressTimer

\* one tool invocation in an engine of either build
InitTool ==
  /\ build \in Builds
  /\ HandlerIdle
  /\ requestDuration = <<>>
  /\ toolExecutionTime = NoSeries
  /\ UnitsIdle

SpecTool == InitTool /\ [][NextTool]_vars

\* ------------------------------------------------- the metric buffers
\* The statements that record a sample, over a long run of requests: the
\* k-th request recorded takes k milliseconds and the k-th calculate that
\* returns takes k milliseconds, which tells the samples apart.  A calculate
\* records its tool time before its response closes, so the tool series is
\* ahead of the request series by at most the requests in flight.

\* the 'close' listener of a request records its duration
RecordRequestDuration ==
  /\ served.requests < MaxSamples
  /\ served.requests - served.calculations < MaxOther
  /\ requestDuration' = pushDuration(requestDuration, served.requests + 1)
  /\ served' = [served EXCEPT !.requests = @ + 1]
  /\ UNCHANGED <<proc, http, build, req, servers, transports, toolExecutionTime, inv, pct, limiter, prompt, loggers, httpServer>>

\* a calculate handler records its execution time before it returns
RecordToolTime ==
  /\ served.calculations < MaxSamples
  /\ served.calculations - served.requests < MaxReqs
  /\ toolExecutionTime' =
       recordToolTime(toolExecutionTime, "calculate", served.calculations + 1)
  /\ served' = [served EXCEPT !.calculations = @ + 1]
  /\ UNCHANGED <<proc, http, build, req, servers, transports, requestDuration, inv, pct, limiter, prompt, loggers, httpServer>>

NextMetrics ==
  \/ RecordRequestDuration
  \/ RecordToolTime

\* server.ts with its buffers empty
InitMetrics ==
  /\ build = "server"
  /\ HandlerIdle
  /\ requestDuration = <<>>
  /\ toolExecutionTime = NoSeries
  /\ UnitsIdle

SpecMetrics == InitMetrics /\ [][NextMetrics]_vars

\* -------------------------------------------------------- percentile
\* one call percentile(arr, p)
CallPercentile ==
  /\ pct.pc = "call"
  /\ pct' = [pct EXCEPT !.pc = "returned", !.out = percentile(pct.arr, pct.p),
                        !.arr = afterPercentile(pct.arr)]
  /\ UNCHANGED <<proc, http, build, req, servers, transports, requestDuration,
                 toolExecutionTime, inv, served, limiter, prompt, loggers, httpServer>>

InitPercentile ==
  /\ build = "server"
  /\ HandlerIdle
  /\ requestDuration = <<>>
  /\ toolExecutionTime = NoSeries
  /\ inv = IdleInv
  /\ served = NoneServed
  /\ http = NoHttp
  /\ proc = NoProc
  /\ httpServer = ServerListening
  /\ loggers = GlobalLoggerOnly
  /\ prompt = NoPrompt
  /\ limiter = NoLimiter
  /\ pct \in {[NoCall EXCEPT !.pc = "call", !.arr = a, !.p = q] : a \in Series, q \in Percents}

SpecPercentile == InitPercentile /\ [][CallPercentile]_vars

\* ------------------------------------------- percentile over 0 <= p <= 1
\* successive calls percentile(arr, p) on one series, p from 0 to 1

\* length of the series and number of calls made on it
MaxShort == 4
MaxCalls == 2

ShortSeries == UNION {[1..n -> {10, 20, 30}] : n \in 0..MaxShort}

\* p in hundredths: 0, 0.01, 0.5, 0.95, 0.99, 1
Quantiles == {0, 1, 50, 95, 99, 100}

CallQuantile ==
  /\ pct.pc = "quantile"
  /\ Len(pct.calls) < MaxCalls
  /\ \E q \in Quantiles :
       pct' = [pct EXCEPT !.p = q, !.out = percentile(pct.arr, q),
                          !.arr = afterPercentile(pct.arr),
                          !.calls = Append(@, <<q, percentile(pct.arr, q)>>)]
  /\ UNCHANGED <<proc, http, build, req, servers, transports, requestDuration,
                 toolExecutionTime, inv, served, limiter, prompt, loggers, httpServer>>

InitQuantile ==
  /\ build = "server"
  /\ HandlerIdle
  /\ requestDuration = <<>>
  /\ toolExecutionTime = NoSeries
  /\ inv = IdleInv
  /\ served = NoneServed
  /\ http = NoHttp
  /\ proc = NoProc
  /\ httpServer = ServerListening
  /\ loggers = GlobalLoggerOnly
  /\ prompt = NoPrompt
  /\ limiter = NoLimiter
  /\ pct \in {[NoCall EXCEPT !.pc = "quantile", !.arr = a] : a \in ShortSeries}

SpecQuantile == InitQuantile /\ [][CallQuantile]_vars

\* ------------------------------------------------------- GET /metrics
\* app.get('/metrics'): three percentile calls on metrics.requestDuration
\* and three on every series of metrics.toolExecutionTime; pct.text is what
\* the exposition shows of them (the quantiles and the count of requests,
\* then the same for each tool)
GetMetrics ==
  /\ pct.pc = "scrape"
  /\ LET after3(arr) == afterPercentile(afterPercentile(afterPercentile(arr)))
         quantiles(arr) == <<percentile(arr, 50), percentile(arr, 95),
                             percentile(arr, 99), Len(arr)>>
         tools == DOMAIN toolExecutionTime
     IN  /\ requestDuration' = after3(requestDuration)
         /\ toolExecutionTime' = [n \in tools |-> after3(toolExecutionTime[n])]
         /\ pct' = [pct EXCEPT
                      !.pc = "scraped",
                      !.text = quantiles(requestDuration)
                               \o (IF "calculate" \in tools
                                   THEN quantiles(toolExecutionTime["calculate"])
                                   ELSE <<>>)]
  /\ UNCHANGED <<proc, http, build, req, servers, transports, inv, served, limiter, prompt, loggers, httpServer>>

NextRead ==
  \/ CallPercentile
  \/ GetMetrics

\* server.ts with samples in its buffers, about to serve GET /metrics or to
\* call percentile on the request series
InitRead ==
  /\ build = "server"
  /\ HandlerIdle
  /\ inv = IdleInv
  /\ served = NoneServed
  /\ http = NoHttp
  /\ proc = NoProc
  /\ httpServer = ServerListening
  /\ loggers = GlobalLoggerOnly
  /\ prompt = NoPrompt
  /\ limiter = NoLimiter
  /\ \E s \in Series :
       /\ requestDuration = s
       /\ \/ /\ pct \in {[NoCall EXCEPT !.pc = "call", !.arr = s, !.p = q] : q \in Percents}
             /\ toolExecutionTime = NoSeries
          \/ /\ pct = [NoCall EXCEPT !.pc = "scrape"]
             /\ toolExecutionTime \in {NoSeries, [n \in {"calculate"} |-> s]}

SpecRead == InitRead /\ [][NextRead]_vars

\* ------------------------------------------- the Express application
\* createApp(): the middleware chain in the order of its app.use calls, then
\* the routes. One HTTP request travels the chain at a time; every request
\* carries Content-Type: application/json.

MAX_REQUEST_SIZE == 1048576
REQUEST_TOO_LARGE == 413
METHOD_NOT_ALLOWED == 405
BAD_REQUEST == 400
NOT_FOUND_STATUS == 404
TOO_MANY_REQUESTS == 429
SERVER_ERROR == 0 - 32000

\* a POST body that is not JSON text ('invalid json')
Malformed == [kind |-> "malformed"]

Methods == {"POST", "GET", "DELETE"}
Paths == {"/mcp", "/health", "/metrics", "/favicon.ico"}
ContentLengths == {64, MAX_REQUEST_SIZE, MAX_REQUEST_SIZE + 1}
SessionIds == {"", "should-be-ignored"}

\* { jsonrpc: '2.0', error: { code, message }, id: null }
JsonRpcError(code, message) ==
  [kind |-> "jsonrpcError", status |-> 0, isError |-> TRUE,
   message |-> message, result |-> [code |-> code, id |-> "null"]]

\* res.status(s).json(body) / res.writeHead(s, headers).end(body): the
\* response is complete and no later middleware or route runs
send(h, s, body, hdrs) ==
  [h EXCEPT !.pc = "done", !.status = s, !.reply = body,
            !.headers = @ \cup hdrs]

\* the request has no parser in front of the routes
expressJsonLenient(bld, h) == [h EXCEPT !.pc = "logging", !.parsed = TRUE]

\* express.json(): a body that is not JSON ends the request with status 400,
\* a JSON body becomes req.body
expressJson(bld, h) ==
  IF h.body = Malformed
  THEN send(h, BAD_REQUEST, [kind |-> "badRequest"], {})
  ELSE [h EXCEPT !.pc = "logging", !.parsed = TRUE]

\* a transport built with a session id generator: it answers a request that
\* names a session it does not know with 404 and stamps its replies
transportStateful(bld, h) ==
  IF h.sessionId # ""
  THEN [status |-> NOT_FOUND_STATUS, reply |-> JsonRpcError(SERVER_ERROR, "Session not found"),
        headers |-> {"Mcp-Session-Id"}]
  ELSE IF h.method = "POST" /\ h.body.kind # "tools/call"
  THEN [status |-> BAD_REQUEST, reply |-> [kind |-> "rejected"], headers |-> {}]
  ELSE [status |-> 200,
        reply |-> IF h.method = "POST" THEN toolResult(calculate(bld, h.body))
                  ELSE [kind |-> "eventStream"],
        headers |-> {"Content-Type", "Mcp-Session-Id"}]

\* new StreamableHTTPServerTransport({ sessionIdGenerator: undefined }) and
\* transport.handleRequest(req, res, req.body): the reply to a POST is the
\* engine's answer to the body, a GET opens the event stream; no session id
\* is generated, checked or sent
transportStateless(bld, h) ==
  IF h.method = "POST" /\ h.body.kind # "tools/call"
  THEN [status |-> BAD_REQUEST, reply |-> [kind |-> "rejected"], headers |-> {}]
  ELSE [status |-> 200,
        reply |-> IF h.method = "POST" THEN toolResult(calculate(bld, h.body))
                  ELSE [kind |-> "eventStream"],
        headers |-> {"Content-Type"}]

\* handleMCPRequest when nothing throws: one engine and one transport are
\* created for the request and the transport answers it
handleMCPRequest(bld, h) ==
  LET out == transportStateless(bld, h)
  IN  [send(h, out.status, out.reply, out.headers) EXCEPT
         !.handler = "handleMCPRequest", !.engines = @ + 1]

\* a request arrives
Arrive ==
  /\ http.pc \in {"idle", "done"}
  /\ \E m \in Methods : \E p \in Paths : \E n \in ContentLengths :
     \E sid \in SessionIds : \E over \in BOOLEAN :
     \E b \in (IF m = "POST" THEN Bodies \cup {Malformed} ELSE {NoBody}) :
       http' = [NoHttp EXCEPT !.pc = "cors", !.method = m, !.path = p,
                              !.contentLength = IF m = "POST" THEN n ELSE 0,
                              !.body = b, !.sessionId = sid, !.overLimit = over]
  /\ UNCHANGED <<build, req, servers, transports, requestDuration,
                 toolExecutionTime, inv, served, pct, proc, limiter, prompt, loggers, httpServer>>

\* app.use(cors({...}))
Cors ==
  /\ http.pc = "cors"
  /\ http' = [http EXCEPT !.pc = "limiter",
                          !.headers = @ \cup {"Access-Control-Allow-Origin"}]
  /\ UNCHANGED <<build, req, servers, transports, requestDuration,
                 toolExecutionTime, inv, served, pct, proc, limiter, prompt, loggers, httpServer>>

\* app.use('/mcp', limiter): a client over its quota is answered by the
\* limiter with its configured message
RateLimiter ==
  /\ http.pc = "limiter"
  /\ http' = IF http.path = "/mcp" /\ http.overLimit
             THEN send(http, TOO_MANY_REQUESTS,
                       JsonRpcError(SERVER_ERROR, "Too many requests. Please try again later."),
                       {"RateLimit-Limit"})
             ELSE [http EXCEPT !.pc = IF build = "server" THEN "size" ELSE "json"]
  /\ UNCHANGED <<build, req, servers, transports, requestDuration,
                 toolExecutionTime, inv, served, pct, proc, limiter, prompt, loggers, httpServer>>

\* server.ts: the Content-Length check
SizeCheck ==
  /\ http.pc = "size"
  /\ http' = IF http.contentLength > MAX_REQUEST_SIZE
             THEN send(http, REQUEST_TOO_LARGE,
                       JsonRpcError(SERVER_ERROR, "Request too large. Maximum size: 1048576 bytes"),
                       {"Content-Type"})
             ELSE [http EXCEPT !.pc = "json"]
  /\ UNCHANGED <<build, req, servers, transports, requestDuration,
                 toolExecutionTime, inv, served, pct, proc, limiter, prompt, loggers, httpServer>>

\* app.use(express.json({ limit }))
JsonParser ==
  /\ http.pc = "json"
  /\ http' = expressJson(build, http)
  /\ UNCHANGED <<build, req, servers, transports, requestDuration,
                 toolExecutionTime, inv, served, pct, proc, limiter, prompt, loggers, httpServer>>

\* the logging middleware: res.locals.requestId = randomUUID(); next()
RequestLogging ==
  /\ http.pc = "logging"
  /\ http' = [http EXCEPT !.pc = "route"]
  /\ UNCHANGED <<build, req, servers, transports, requestDuration,
                 toolExecutionTime, inv, served, pct, proc, limiter, prompt, loggers, httpServer>>

\* app.post('/mcp', handleMCPRequest)
PostMcp ==
  /\ http.pc = "route" /\ http.method = "POST" /\ http.path = "/mcp"
  /\ http' = handleMCPRequest(build, http)
  /\ UNCHANGED <<build, req, servers, transports, requestDuration,
                 toolExecutionTime, inv, served, pct, proc, limiter, prompt, loggers, httpServer>>

\* app.get('/mcp', handleMCPRequest)
GetMcp ==
  /\ http.pc = "route" /\ http.method = "GET" /\ http.path = "/mcp"
  /\ http' = handleMCPRequest(build, http)
  /\ UNCHANGED <<build, req, servers, transports, requestDuration,
                 toolExecutionTime, inv, served, pct, proc, limiter, prompt, loggers, httpServer>>

\* server.ts: app.delete('/mcp', ...)
DeleteMcp ==
  /\ http.pc = "route" /\ http.method = "DELETE" /\ http.path = "/mcp"
  /\ build = "server"
  /\ http' = [send(http, METHOD_NOT_ALLOWED,
                   JsonRpcError(SERVER_ERROR,
                     "Method not allowed. No sessions to delete in stateless mode."),
                   {"Allow"})
              EXCEPT !.handler = "delete"]
  /\ UNCHANGED <<build, req, servers, transports, requestDuration,
                 toolExecutionTime, inv, served, pct, proc, limiter, prompt, loggers, httpServer>>

\* app.get('/health', ...), app.get('/metrics', ...)
Monitoring ==
  /\ http.pc = "route" /\ http.method = "GET"
  /\ http.path \in {"/health", "/metrics"}
  /\ http' = [send(http, 200, [kind |-> "monitoring"], {"Content-Type"})
              EXCEPT !.handler = http.path]
  /\ UNCHANGED <<build, req, servers, transports, requestDuration,
                 toolExecutionTime, inv, served, pct, proc, limiter, prompt, loggers, httpServer>>

\* no route matches the method and the path
NoRoute ==
  /\ http.pc = "route"
  /\ ~(http.path = "/mcp" /\ http.method \in {"POST", "GET"})
  /\ ~(http.path = "/mcp" /\ http.method = "DELETE" /\ build = "server")
  /\ ~(http.path \in {"/health", "/metrics"} /\ http.method = "GET")
  /\ http' = send(http, NOT_FOUND_STATUS, [kind |-> "notFound"], {})
  /\ UNCHANGED <<build, req, servers, transports, requestDuration,
                 toolExecutionTime, inv, served, pct, proc, limiter, prompt, loggers, httpServer>>

NextHttp ==
  \/ Arrive
  \/ Cors
  \/ RateLimiter
  \/ SizeCheck
  \/ JsonParser
  \/ RequestLogging
  \/ PostMcp
  \/ GetMcp
  \/ DeleteMcp
  \/ Monitoring
  \/ NoRoute

\* either build, listening, no request received yet
InitHttp ==
  /\ build \in Builds
  /\ HandlerIdle
  /\ requestDuration = <<>>
  /\ toolExecutionTime = NoSeries
  /\ UnitsIdle

SpecHttp == InitHttp /\ [][NextHttp]_vars

\* --------------------------------------------------- the rate limiter
\* rateLimit({ windowMs, max }): one counter per client and window, for the
\* requests to /mcp. One client sends all the requests.

\* requests counted in one window
MaxHits == 4

\* values of config.rateLimitMax (RATE_LIMIT_MAX)
RateLimitMaxValues == {1, 2}

\* the requests of a window are answered by the limiter from this count on
overQuotaFrom(hits, max) == hits >= max

\* max: maximum requests per window per IP
overQuota(hits, max) == hits > max

\* a finished request and the response it got
exchange(h) ==
  [method |-> h.method, path |-> h.path, body |-> h.body,
   status |-> h.status, reply |-> h.reply]

\* a request of the client to /mcp arrives and is counted
ArriveCounted ==
  /\ http.pc \in {"idle", "done"}
  /\ \E m \in {"POST", "GET"} :
     \E b \in (IF m = "POST" THEN {Calc("1", 3, 4, "multiply", 2), Malformed}
               ELSE {NoBody}) :
       LET hits == limiter.hits + 1
       IN  /\ hits <= MaxHits
           /\ http' = [NoHttp EXCEPT !.pc = "cors", !.method = m, !.path = "/mcp",
                                     !.contentLength = IF m = "POST" THEN 64 ELSE 0,
                                     !.body = b,
                                     !.overLimit = overQuota(hits, limiter.max)]
           /\ limiter' = [limiter EXCEPT
                            !.hits = hits, !.hit = hits,
                            !.seen = IF http.pc = "done"
                                     THEN @ \cup {exchange(http)} ELSE @]
  /\ UNCHANGED <<build, req, servers, transports, requestDuration,
                 toolExecutionTime, inv, served, pct, proc, prompt, loggers, httpServer>>

\* windowMs has passed: the count starts again
WindowReset ==
  /\ limiter.hits > 0
  /\ http.pc \in {"idle", "done"}
  /\ limiter' = [limiter EXCEPT !.hits = 0]
  /\ UNCHANGED <<build, req, servers, transports, requestDuration,
                 toolExecutionTime, inv, served, pct, http, proc, prompt, loggers, httpServer>>

NextLimiter ==
  \/ ArriveCounted
  \/ WindowReset
  \/ Cors
  \/ RateLimiter
  \/ SizeCheck
  \/ JsonParser
  \/ RequestLogging
  \/ PostMcp
  \/ GetMcp

\* server.ts, listening, configured with a small quota
InitLimiter ==
  /\ build = "server"
  /\ HandlerIdle
  /\ requestDuration = <<>>
  /\ toolExecutionTime = NoSeries
  /\ inv = IdleInv /\ served = NoneServed /\ pct = NoCall /\ http = NoHttp
  /\ httpServer = ServerListening
  /\ loggers = GlobalLoggerOnly
  /\ prompt = NoPrompt
  /\ proc = NoProc
  /\ httpServer = ServerListening
  /\ loggers = GlobalLoggerOnly
  /\ prompt = NoPrompt
  /\ limiter \in {[NoLimiter EXCEPT !.max = n] : n \in RateLimitMaxValues}

SpecLimiter == InitLimiter /\ [][NextLimiter]_vars

\* ------------------------------------------ the generate-problems prompt
\* Strings are sequences of characters.

Digits == <<"0", "1", "2", "3", "4", "5", "6", "7", "8", "9">>

IsDigit(c) == \E i \in DOMAIN Digits : Digits[i] = c

DigitValue(c) == (CHOOSE i \in DOMAIN Digits : Digits[i] = c) - 1

\* the value of the longest prefix of digits of str, read after the digits
\* that gave acc; NaN when there is no digit at all
RECURSIVE parseDigits(_, _, _)
parseDigits(str, acc, any) ==
  IF Len(str) > 0 /\ IsDigit(Head(str))
  THEN parseDigits(Tail(str), 10 * acc + DigitValue(Head(str)), TRUE)
  ELSE [nan |-> ~any, n |-> acc]

\* parseInt(str): leading blanks are skipped, then an optional sign, then
\* digits up to the first character that is not one
RECURSIVE parseInt(_)
parseInt(str) ==
  IF Len(str) > 0 /\ Head(str) = " " THEN parseInt(Tail(str))
  ELSE IF Len(str) > 0 /\ Head(str) = "-"
  THEN LET r == parseDigits(Tail(str), 0, FALSE) IN [nan |-> r.nan, n |-> 0 - r.n]
  ELSE IF Len(str) > 0 /\ Head(str) = "+" THEN parseDigits(Tail(str), 0, FALSE)
  ELSE parseDigits(str, 0, FALSE)

\* `${n}` for an integer n
RECURSIVE numberToString(_)
numberToString(n) ==
  IF n < 0 THEN <<"-">> \o numberToString(0 - n)
  ELSE IF n < 10 THEN <<Digits[n + 1]>>
  ELSE numberToString(n \div 10) \o <<Digits[(n % 10) + 1]>>

\* count = '5' by default; Math.min(parseInt(count) || 5, 10)
problemCount(count) ==
  LET text == IF count.given THEN count.text ELSE <<"5">>
      parsed == parseInt(text)
      n == IF parsed.nan \/ parsed.n = 0 THEN 5 ELSE parsed.n
  IN  IF n < 10 THEN n ELSE 10

\* the number in `Generate ${...} practice problems`: server.ts prints
\* problemCount, the production build the count argument itself
statedCount(bld, count) ==
  IF bld = "server" THEN numberToString(problemCount(count))
  ELSE IF count.given THEN count.text ELSE <<"5">>

\* values of the count argument: absent, and the strings '5', '1', '10',
\* '0', '12', '-3', 'abc', '3.7', ' 7', '7x', ''
Counts ==
  {[given |-> FALSE, text |-> <<>>]} \cup
  {[given |-> TRUE, text |-> t] :
     t \in {<<"5">>, <<"1">>, <<"1", "0">>, <<"0">>, <<"1", "2">>, <<"-", "3">>,
            <<"a", "b", "c">>, <<"3", ".", "7">>, <<" ", "7">>, <<"7", "x">>, <<>>}}

Topics == {"fractions", "algebra"}

Difficulties == {"easy", "medium", "hard"}

\* the handler of the generate-problems prompt
GetPrompt ==
  /\ prompt.pc \in {"idle", "returned"}
  /\ \E c \in Counts : \E t \in Topics : \E d \in Difficulties :
       prompt' = [pc |-> "returned", count |-> c, topic |-> t, difficulty |-> d,
                  stated |-> statedCount(build, c)]
  /\ UNCHANGED <<build, req, servers, transports, requestDuration,
                 toolExecutionTime, inv, served, pct, http, proc, limiter, loggers, httpServer>>

InitPrompt ==
  /\ build \in Builds
  /\ HandlerIdle
  /\ requestDuration = <<>>
  /\ toolExecutionTime = NoSeries
  /\ UnitsIdle

SpecPrompt == InitPrompt /\ [][GetPrompt]_vars

\* ---------------------------------------------------------- the Logger
\* loggers is the heap of Logger objects, loggers[1] the global `logger`;
\* a context is a function from its keys to their values. Each object keeps
\* the receiver and the argument of the withContext call that made it.

\* Logger objects on the heap
MaxLoggers == 4

\* { ...a, ...b }: the keys of both, b's value where both have the key
spread(a, b) ==
  [k \in DOMAIN a \cup DOMAIN b |-> IF k \in DOMAIN b THEN b[k] ELSE a[k]]

\* the argument is merged into the receiver's own context, and the receiver
\* is returned
withContextInPlace(heap, l, ctx) ==
  LET merged == spread(heap[l].context, ctx)
  IN  Append([heap EXCEPT ![l].context = merged],
             [context |-> merged, from |-> l, arg |-> ctx])

\* withContext(ctx) { const newLogger = new Logger();
\*   newLogger.context = { ...this.context, ...ctx }; return newLogger; }
withContext(heap, l, ctx) ==
  Append(heap, [context |-> spread(heap[l].context, ctx), from |-> l, arg |-> ctx])

\* the arguments handed to withContext: { requestId } by the logging
\* middleware and handleMCPRequest, { tool, requestId, operation } by
\* calculate, { tool, progressId } by demo_progress
Contexts ==
  {[k \in {"requestId"} |-> u] : u \in UUIDs} \cup
  {[k \in {"tool", "requestId", "operation"} |->
      CASE k = "tool" -> "calculate" [] k = "requestId" -> u [] OTHER -> "add"] :
     u \in UUIDs} \cup
  {[k \in {"tool", "progressId"} |->
      IF k = "tool" THEN "demo_progress" ELSE "6fa1"]}

\* some code calls withContext on a logger it holds
WithContext ==
  /\ Len(loggers) < MaxLoggers
  /\ \E l \in DOMAIN loggers : \E ctx \in Contexts :
       loggers' = withContext(loggers, l, ctx)
  /\ UNCHANGED <<build, req, servers, transports, requestDuration,
                 toolExecutionTime, inv, served, pct, http, proc, limiter, prompt, httpServer>>

InitLogger ==
  /\ build \in Builds
  /\ HandlerIdle
  /\ requestDuration = <<>>
  /\ toolExecutionTime = NoSeries
  /\ UnitsIdle

SpecLogger == InitLogger /\ [][WithContext]_vars

(***************************************************************************)
(* Shutdown: startServer keeps the http.Server returned by app.listen and  *)
(* registers one handler for SIGTERM and one for SIGINT.  A connection is  *)
(* idle (kept alive between requests), carries a request whose response is *)
(* being produced, or carries the event stream of a GET /mcp.              *)
(***************************************************************************)
Signals == {"SIGTERM", "SIGINT"}

\* server.close(callback): the server stops listening, connections that carry
\* no request are closed, the others are kept, and the callback is
\* registered for the close event of the server
serverClose(srv) ==
  [srv EXCEPT !.listening = FALSE,
              !.conns = [c \in Conns |-> IF srv.conns[c] = "idle" THEN "none"
                                         ELSE srv.conns[c]],
              !.closeCallbacks = @ + 1]

\* a client connects to the listening server
Connect(c) ==
  /\ httpServer.exitCode = Running
  /\ httpServer.listening
  /\ httpServer.conns[c] = "none"
  /\ httpServer' = [httpServer EXCEPT !.conns[c] = "idle"]
  /\ UNCHANGED <<build, req, servers, transports, requestDuration, toolExecutionTime,
                 inv, served, pct, http, proc, limiter, prompt, loggers>>

\* app.post('/mcp', handleMCPRequest) / app.get('/mcp', handleMCPRequest): a
\* request arrives on an open connection; a GET opens the event stream
RequestArrives(c) ==
  /\ httpServer.exitCode = Running
  /\ httpServer.conns[c] = "idle"
  /\ \E m \in {"POST", "GET"} :
       httpServer' = [httpServer EXCEPT
                        !.conns[c] = IF m = "GET" THEN "stream" ELSE "request"]
  /\ UNCHANGED <<build, req, servers, transports, requestDuration, toolExecutionTime,
                 inv, served, pct, http, proc, limiter, prompt, loggers>>

\* the response of a POST is complete: the connection is idle again
ResponseEnd(c) ==
  /\ httpServer.exitCode = Running
  /\ httpServer.conns[c] = "request"
  /\ httpServer' = [httpServer EXCEPT !.conns[c] = "idle"]
  /\ UNCHANGED <<build, req, servers, transports, requestDuration, toolExecutionTime,
                 inv, served, pct, http, proc, limiter, prompt, loggers>>

\* the server closes a connection that stayed idle
IdleTimeout(c) ==
  /\ httpServer.exitCode = Running
  /\ httpServer.conns[c] = "idle"
  /\ httpServer' = [httpServer EXCEPT !.conns[c] = "none"]
  /\ UNCHANGED <<build, req, servers, transports, requestDuration, toolExecutionTime,
                 inv, served, pct, http, proc, limiter, prompt, loggers>>

\* the client closes its connection, whatever it carries
SocketClose(c) ==
  /\ httpServer.exitCode = Running
  /\ httpServer.conns[c] # "none"
  /\ httpServer' = [httpServer EXCEPT !.conns[c] = "none"]
  /\ UNCHANGED <<build, req, servers, transports, requestDuration, toolExecutionTime,
                 inv, served, pct, http, proc, limiter, prompt, loggers>>

\* process.on('SIGTERM', ...) / process.on('SIGINT', ...): shutdown() logs
\* and calls server.close(() => { ...; process.exit(0) }); nothing else
Shutdown(sig) ==
  /\ httpServer.exitCode = Running
  /\ Len(httpServer.signals) < MaxSignals
  /\ httpServer' = [serverClose(httpServer) EXCEPT !.signals = Append(@, sig)]
  /\ UNCHANGED <<build, req, servers, transports, requestDuration, toolExecutionTime,
                 inv, served, pct, http, proc, limiter, prompt, loggers>>

\* the close event of the server: it is emitted once the server has stopped
\* listening and its last connection has ended; the first callback
\* registered by shutdown() calls process.exit(0)
ServerClosed ==
  /\ httpServer.exitCode = Running
  /\ ~httpServer.listening
  /\ \A c \in Conns : httpServer.conns[c] = "none"
  /\ httpServer.closeCallbacks > 0
  /\ httpServer' = [httpServer EXCEPT !.exitCode = 0]
  /\ UNCHANGED <<build, req, servers, transports, requestDuration, toolExecutionTime,
                 inv, served, pct, http, proc, limiter, prompt, loggers>>

InitShutdown ==
  /\ build \in Builds
  /\ HandlerIdle
  /\ requestDuration = <<>>
  /\ toolExecutionTime = NoSeries
  /\ UnitsIdle

NextShutdown ==
  \/ \E c \in Conns : Connect(c)
  \/ \E c \in Conns : RequestArrives(c)
  \/ \E c \in Conns : ResponseEnd(c)
  \/ \E c \in Conns : IdleTimeout(c)
  \/ \E c \in Conns : SocketClose(c)
  \/ \E sig \in Signals : Shutdown(sig)
  \/ ServerClosed

SpecShutdown == InitShutdown /\ [][NextShutdown]_vars

\* what the process itself does is scheduled by its event loop: a response
\* under way is completed, an idle connection times out, and the close event
\* is delivered; when a client connects, sends or disconnects is not
FairnessShutdown ==
  /\ \A c \in Conns : WF_vars(ResponseEnd(c))
  /\ \A c \in Conns : WF_vars(IdleTimeout(c))
  /\ WF_vars(ServerClosed)

SpecShutdownFair == InitShutdown /\ [][NextShutdown]_vars /\ FairnessShutdown

\* ------------------------------------------- capability registration
\* createMCPServer() as the list of its server.tool, server.resource and
\* server.prompt calls, under the process environment of the moment of the
\* call.

\* createMCPServer calls recorded
MaxEngines == 3

\* values of process.env['SAMPLE_TOOL_NAME']: not set, a name of its own,
\* the name of a tool registered further down
EnvValues == {"", "echo", "calculate"}

Resources ==
  {"calculator://constants", "calculator://history/{id}", "calculator://stats",
   "formulas://library", "request://current"}

Prompts == {"explain-calculation", "generate-problems", "calculator-tutor"}

\* the names given to server.tool, in the order of the calls
toolRegistrations(bld, env) ==
  IF bld = "server"
  THEN (IF env # "" THEN <<env>> ELSE <<>>) \o <<"calculate", "demo_progress">>
  ELSE <<"calculate", "demo_progress", "solve_math_problem", "explain_formula",
         "calculator_assistant">>

\* the engine createMCPServer returns; registering a tool name twice throws
capabilities(bld, env) ==
  LET names == toolRegistrations(bld, env)
      twice == \E i, j \in DOMAIN names : i # j /\ names[i] = names[j]
  IN  IF twice
      THEN [thrown |-> TRUE, tools |-> {}, resources |-> {}, prompts |-> {}]
      ELSE [thrown |-> FALSE, tools |-> {names[i] : i \in DOMAIN names},
            resources |-> Resources, prompts |-> Prompts]

\* code running in the process assigns or deletes
\* process.env['SAMPLE_TOOL_NAME']
SetEnv ==
  /\ \E v \in EnvValues : v # proc.env /\ proc' = [proc EXCEPT !.env = v]
  /\ UNCHANGED <<build, req, servers, transports, requestDuration,
                 toolExecutionTime, inv, served, pct, http, limiter, prompt, loggers, httpServer>>

\* a request reaches handleMCPRequest, which calls createMCPServer()
CreateEngine ==
  /\ Len(proc.engines) < MaxEngines
  /\ proc' = [proc EXCEPT !.engines = Append(@, capabilities(build, proc.env))]
  /\ UNCHANGED <<build, req, servers, transports, requestDuration,
                 toolExecutionTime, inv, served, pct, http, limiter, prompt, loggers, httpServer>>

NextEngines ==
  \/ SetEnv
  \/ CreateEngine

\* either build, started under any value of SAMPLE_TOOL_NAME
InitEngines ==
  /\ build \in Builds
  /\ HandlerIdle
  /\ requestDuration = <<>>
  /\ toolExecutionTime = NoSeries
  /\ inv = IdleInv /\ served = NoneServed /\ pct = NoCall /\ http = NoHttp
  /\ httpServer = ServerListening
  /\ loggers = GlobalLoggerOnly
  /\ prompt = NoPrompt
  /\ limiter = NoLimiter
  /\ proc \in {[NoProc EXCEPT !.env = v] : v \in EnvValues}

SpecEngines == InitEngines /\ [][NextEngines]_vars

TypeOK ==
  /\ build \in Builds
  /\ \A r \in Reqs : req[r].pc \in {"none", "connecting", "handling", "returned"}
  /\ Len(requestDuration) <= MetricsCapacity

\* ----------------------------------------------------------------- claims

InFlight(r) == req[r].pc \in {"connecting", "handling"} \/ req[r].dispatched = "pending"

\* C1: every request that got past construction holds an engine and a
\* transport of its own: no engine and no transport is held by two requests,
\* and a transport serves only the response and the engine of the request
\* that constructed it.
C1_FreshInstancePerRequest ==
  /\ \A r \in Reqs :
       (req[r].pc \in {"connecting", "handling"} \/ req[r].listener)
         => req[r].server # 0 /\ req[r].transport # 0
  /\ \A r1, r2 \in Reqs :
       r1 # r2 =>
         /\ req[r1].server # 0 => req[r1].server # req[r2].server
         /\ req[r1].transport # 0 => req[r1].transport # req[r2].transport
  /\ \A r \in Reqs :
       req[r].transport # 0 =>
         LET tp == transports[req[r].transport]
         IN  /\ tp.res \in {0, r}
             /\ tp.server \in {0, req[r].server}
             /\ servers[req[r].server].transport \in {0, req[r].transport}

\* two requests are in flight at once, each with its engine and transport
C1_Witness ==
  \E r1, r2 \in Reqs :
    /\ r1 # r2
    /\ InFlight(r1) /\ InFlight(r2)
    /\ req[r1].server # 0 /\ req[r2].server # 0
    /\ req[r1].transport # 0 /\ req[r2].transport # 0

\* C2: a calculate result written to a response was computed from the
\* arguments of that response's own request, whatever other requests are in
\* flight.
C2_ResultMatchesOwnRequest ==
  \A r \in Reqs :
    req[r].reply.kind = "result" =>
      /\ req[r].body.kind = "tools/call"
      /\ req[r].reply.a = req[r].body.a
      /\ req[r].reply.b = req[r].body.b
      /\ req[r].reply.op = req[r].body.op
      /\ req[r].reply.value = calculate(build, req[r].body).value

\* a request received its result while an earlier request with other
\* arguments was still being processed
C2_Witness ==
  \E r1, r2 \in Reqs :
    /\ r1 # r2
    /\ req[r1].dispatched = "pending"
    /\ req[r2].reply.kind = "result"
    /\ req[r1].body # req[r2].body
    /\ req[r2].reply.value = [n |-> 35, p |-> 1]

\* position of an event in a request's trace (every event occurs at most
\* once in it), 0 if it did not occur
Pos(seq, x) ==
  IF \E i \in DOMAIN seq : seq[i] = x
  THEN CHOOSE i \in DOMAIN seq : seq[i] = x
  ELSE 0

Happened(r, x) == \E i \in DOMAIN req[r].trace : req[r].trace[i] = x

Before(r, x, y) ==
  \E i \in DOMAIN req[r].trace :
    /\ req[r].trace[i] = x
    /\ \E j \in DOMAIN req[r].trace : j > i /\ req[r].trace[j] = y

\* what follows the 'closed' event in a request's trace
AfterClosed(r) ==
  SubSeq(req[r].trace, Pos(req[r].trace, "closed") + 1, Len(req[r].trace))

\* C3: (server.ts) when transport.handleRequest returned normally and the
\* response's 'close' event fires afterwards, the cleanup runs exactly once
\* and does, in this order: one sample appended to metrics.requestDuration,
\* transport.close(), server.close(); it does not run before the event, and
\* the buffer holds one sample per cleanup.
C3_CleanupOnceInOrder ==
  /\ \A r \in Reqs :
       /\ req[r].cleanups <= 1
       /\ (req[r].listener /\ ~req[r].closed) => req[r].cleanups = 0
       /\ Before(r, "listen", "closed") =>
            /\ req[r].cleanups = 1
            /\ AfterClosed(r) = <<"metric", "transport.close", "server.close">>
            /\ transports[req[r].transport].closed
            /\ servers[req[r].server].closed
  /\ Len(requestDuration) = Cardinality({r \in Reqs : req[r].cleanups = 1})

\* a POST whose reply was written has closed after handleRequest returned
C3_Witness ==
  \E r \in Reqs :
    /\ req[r].method = "POST"
    /\ req[r].reply.kind = "result"
    /\ Before(r, "listen", "closed")
    /\ ~req[r].clientGone
    /\ req[r].cleanups = 1
    /\ Len(requestDuration) >= 1

StreamOpen(r) ==
  /\ req[r].method = "GET"
  /\ req[r].listener
  /\ req[r].wrote = "transport"
  /\ ~req[r].closed

DisconnectedWhilePending(r) ==
  /\ Happened(r, "disconnect")
  /\ req[r].transport # 0
  /\ \A x \in {"handled", "handleThrew", "catch"} :
       Happened(r, x) => Before(r, "disconnect", x)

\* C5: when the client disconnects while server.connect or
\* transport.handleRequest is pending, then, once the handler has returned
\* (here: without an exception), the cleanup has run: transport and engine are closed and a sample was
\* recorded.
C5_DisconnectWhilePendingCleansUp ==
  \A r \in Reqs :
    (DisconnectedWhilePending(r) /\ req[r].pc = "returned" /\ ~req[r].caught) =>
      /\ req[r].cleanups = 1
      /\ transports[req[r].transport].closed
      /\ servers[req[r].server].closed

\* C6: when an exception escaped server.connect or transport.handleRequest
\* and the response has closed, the cleanup has run and closed the transport
\* and the engine.
C6_CleanupAfterException ==
  \A r \in Reqs :
    (req[r].caught /\ req[r].transport # 0 /\ req[r].closed) =>
      /\ req[r].cleanups = 1
      /\ transports[req[r].transport].closed
      /\ servers[req[r].server].closed

\* the part of C7 that orders construction, connect, dispatch and cleanup
C7_Order(r) ==
  /\ Happened(r, "transport") => Before(r, "engine", "transport")
  /\ Happened(r, "connected") => Before(r, "transport", "connected")
  /\ Happened(r, "handleRequest") => Before(r, "connected", "handleRequest")
  /\ Happened(r, "handled") => Before(r, "handleRequest", "handled")
  /\ req[r].dispatched # "no" =>
       /\ Happened(r, "connected")
       /\ servers[req[r].server].transport = req[r].transport
  /\ req[r].cleanups > 0 => req[r].closed
  /\ \A x \in {"metric", "transport.close", "server.close"} :
       Happened(r, x) => Before(r, "closed", x)

HandleRequestCompleted(r) == Happened(r, "handled") \/ Happened(r, "handleThrew")

\* C7 as stated: the events of a request are ordered engine creation,
\* transport creation, connect completion, handleRequest invocation; nothing
\* is dispatched before connect completed; cleanup follows 'closed'; and
\* 'closed' follows handleRequest completion or client disconnection.
C7_ClosedFollowsCompletionOrDisconnect ==
  \A r \in Reqs :
    /\ C7_Order(r)
    /\ req[r].closed =>
         \/ Before(r, "disconnect", "closed")
         \/ (HandleRequestCompleted(r) /\
              (Before(r, "handled", "closed") \/ Before(r, "handleThrew", "closed")))

\* C7 amended: as above, and 'closed' follows handleRequest completion,
\* client disconnection or the catch block's error response.
C7_ClosedFollowsCompletionDisconnectOrCatch ==
  \A r \in Reqs :
    /\ C7_Order(r)
    /\ req[r].closed =>
         \/ Before(r, "disconnect", "closed")
         \/ Before(r, "handled", "closed")
         \/ Before(r, "handleThrew", "closed")
         \/ Before(r, "catch", "closed")

\* a request ran through all its events up to the cleanup, and another was
\* closed after the catch block answered a failed connect
C7_Witness ==
  /\ \E r \in Reqs :
       /\ req[r].cleanups = 1
       /\ req[r].dispatched = "done"
       /\ Before(r, "handled", "closed")
  /\ \E r \in Reqs :
       /\ req[r].caught /\ req[r].closed /\ ~req[r].clientGone
       /\ ~Happened(r, "handleRequest")

CaughtBeforeHeaders(r) == req[r].caught /\ req[r].wrote # "transport"

\* C9: (server.ts) an exception caught before headers were sent is answered
\* with HTTP 500, code -32603 and the fixed message, whichever value of
\* ErrValues was thrown; two requests with the same body get the same status
\* and the same reply whatever each of them caught.
C9_GenericInternalError ==
  /\ \A r \in Reqs :
       CaughtBeforeHeaders(r) =>
         /\ req[r].wrote = "catch"
         /\ req[r].status = 500
         /\ req[r].reply.kind = "error"
         /\ req[r].reply.code = 0 - 32603
         /\ req[r].reply.message = "An internal server error occurred."
  /\ \A r1, r2 \in Reqs :
       (CaughtBeforeHeaders(r1) /\ CaughtBeforeHeaders(r2)
          /\ req[r1].body = req[r2].body) =>
         /\ req[r1].status = req[r2].status
         /\ req[r1].reply = req[r2].reply

\* two requests with the same body have failed, one in server.connect and
\* one in transport.handleRequest, and were answered by the catch block
C9_Witness ==
  \E r1, r2 \in Reqs :
    /\ r1 # r2
    /\ CaughtBeforeHeaders(r1) /\ CaughtBeforeHeaders(r2)
    /\ req[r1].body = req[r2].body
    /\ Happened(r1, "handleThrew") /\ ~Happened(r2, "handleRequest")
    /\ req[r1].status = 500 /\ req[r2].status = 500

\* C10: (stateless-production-server.ts) the 500 reply of the catch block
\* carries neither the message nor the stack of the caught exception, and is
\* the same for two requests with the same body whatever they caught.
C10_ProductionReplyIsGeneric ==
  /\ \A r \in Reqs :
       (req[r].caught /\ req[r].wrote = "catch") =>
         \A err \in ErrValues :
           /\ req[r].reply.message # err.message
           /\ req[r].reply.message # err.stack
  /\ \A r1, r2 \in Reqs :
       (req[r1].caught /\ req[r1].wrote = "catch"
          /\ req[r2].caught /\ req[r2].wrote = "catch"
          /\ req[r1].body = req[r2].body) =>
         req[r1].reply = req[r2].reply

\* ------------------------------------------------------ claims C11..C20

Final(w) == SelectSeq(w, LAMBDA m : m.kind = "final")

Progress(w) == SelectSeq(w, LAMBDA m : m.kind = "progress")

\* C11: when a tool handler has thrown an error that is not a protocol error
\* (not an McpError), the response the client gets for the call does not
\* carry the error's message: it carries the generic internal-error message.
C11_ToolFaultNotLeaked ==
  (inv.pc = "done" /\ inv.thrown.kind = "toolError" /\ inv.thrown.class # "McpError") =>
    \A i \in DOMAIN inv.wire :
      inv.wire[i].kind = "final" =>
        /\ inv.wire[i].message # inv.thrown.message
        /\ inv.wire[i].message = GenericMessage

\* transport.handleRequest threw after it had sent the response headers
CaughtAfterHeaders(r) == Before(r, "headers", "catch")

\* C12: when the exception reaches the catch block after the headers were
\* sent, the response keeps the status the transport gave it, no body is
\* written by the handler and the handler does not end the response.
C12_NothingWrittenAfterHeaders ==
  \A r \in Reqs :
    CaughtAfterHeaders(r) =>
      /\ req[r].caught
      /\ req[r].headersSent
      /\ req[r].wrote = "transport"
      /\ req[r].status = 200
      /\ req[r].reply = NoReply
      /\ ~req[r].ended

\* a POST whose handleRequest threw after the headers has been caught
C12_Witness ==
  \E r \in Reqs :
    /\ req[r].method = "POST"
    /\ CaughtAfterHeaders(r)
    /\ req[r].pc = "returned"
    /\ req[r].status = 200

\* C13: a response whose handleRequest failed after the headers were sent
\* is eventually closed.
C13_FaultedStreamTerminates ==
  \A r \in Reqs : CaughtAfterHeaders(r) ~> req[r].closed

\* final responses written for a request: the reply the transport wrote
\* for the engine, and the error response of the catch block
Finals(r) ==
  Count(req[r].trace, "reply") + (IF req[r].wrote = "catch" THEN 1 ELSE 0)

\* the handler has returned, no tool handler is pending, and the client is
\* still there
Settled(r) ==
  /\ req[r].method = "POST"
  /\ req[r].pc = "returned"
  /\ req[r].dispatched # "pending"
  /\ ~req[r].clientGone

C15_CatchEchoesRequestId ==
  \A r \in Reqs :
    req[r].wrote = "catch" =>
      req[r].reply.id = (IF req[r].body.kind = "undefined" THEN "null"
                         ELSE req[r].body.id)

\* C16: in what the engine writes for one calculate or demo_progress call,
\* no progress notification follows the final result or error, there is at
\* most one final message, and a finished invocation has written it last.
C16_ProgressBeforeFinal ==
  inv.call.kind = "tools/call" =>
    /\ \A i, j \in DOMAIN inv.wire :
         (inv.wire[i].kind = "final" /\ j > i) => inv.wire[j].kind # "progress"
    /\ Len(Final(inv.wire)) <= 1
    /\ inv.pc = "done" =>
         /\ Len(Final(inv.wire)) = 1
         /\ inv.wire[Len(inv.wire)].kind = "final"

\* a calculate with stream has returned its result after two notifications
C16_Witness ==
  /\ inv.pc = "done"
  /\ inv.call.name = "calculate" /\ inv.call.stream
  /\ Len(inv.wire) = 3
  /\ inv.wire[1].kind = "progress" /\ inv.wire[2].kind = "progress"
  /\ inv.wire[3].kind = "final" /\ ~inv.wire[3].isError

\* the notifications of w carry the fractions e[1], e[2], ... (<<num, den>>)
HasFractions(w, e) ==
  LET pr == Progress(w)
  IN  /\ Len(pr) = Len(e)
      /\ \A i \in DOMAIN pr : pr[i].num * e[i][2] = e[i][1] * pr[i].den

\* the part of C17 about every notification: one token, generated when the
\* invocation started; fractions in (0, 1] and strictly increasing
OneTokenRisingFractions ==
  LET pr == Progress(inv.wire)
  IN  /\ \A i \in DOMAIN pr :
           /\ inv.token \in UUIDs
           /\ pr[i].progressToken = inv.token
           /\ 0 < pr[i].num /\ pr[i].num <= pr[i].den
      /\ \A i, j \in DOMAIN pr :
           i < j => pr[i].num * pr[j].den < pr[j].num * pr[i].den

FiveFifths == <<(<<1, 5>>), (<<2, 5>>), (<<3, 5>>), (<<4, 5>>), (<<5, 5>>)>>

\* C17 as stated: one token and rising fractions in (0, 1]; a finished
\* calculate with stream has emitted 0.1 then 1.0, a finished demo_progress
\* 1/5 .. 5/5, a calculate without stream nothing.
C17_ProgressTokenAndFractions ==
  /\ OneTokenRisingFractions
  /\ (inv.pc = "done" /\ inv.call.name = "calculate") =>
       HasFractions(inv.wire, IF inv.call.stream THEN <<(<<1, 10>>), (<<1, 1>>)>> ELSE <<>>)
  /\ (inv.pc = "done" /\ inv.call.name = "demo_progress") =>
       HasFractions(inv.wire, FiveFifths)

\* C17 amended: as above, but a calculate with stream that threw has
\* emitted 0.1 only.
C17_ProgressTokenAndFractionsUnlessThrown ==
  /\ OneTokenRisingFractions
  /\ (inv.pc = "done" /\ inv.call.name = "calculate") =>
       HasFractions(inv.wire,
         IF ~inv.call.stream THEN <<>>
         ELSE IF inv.thrown.kind = "toolError" THEN <<(<<1, 10>>)>>
         ELSE <<(<<1, 10>>), (<<1, 1>>)>>)
  /\ (inv.pc = "done" /\ inv.call.name = "demo_progress") =>
       HasFractions(inv.wire, FiveFifths)

\* a demo_progress has finished after five notifications with its token
C17_Witness ==
  /\ inv.pc = "done"
  /\ inv.call.name = "demo_progress"
  /\ Len(Progress(inv.wire)) = 5
  /\ \A i \in 1..5 : inv.wire[i].progressToken = inv.token /\ inv.wire[i].num = i

\* C18: the request series and every tool series hold at most 1000
\* samples in every state.
C18_SeriesBounded ==
  /\ Len(requestDuration) <= 1000
  /\ \A n \in DOMAIN toolExecutionTime : Len(toolExecutionTime[n]) <= 1000

\* more than 1000 samples were recorded in each series and both are full
C18_Witness ==
  /\ served.requests > 1000 /\ served.calculations > 1000
  /\ Len(requestDuration) = 1000
  /\ "calculate" \in DOMAIN toolExecutionTime
  /\ Len(toolExecutionTime["calculate"]) = 1000

CeilIndex(n, p) ==
  CHOOSE k \in 0..n : /\ 100 * k >= (n - 1) * p
                      /\ \A j \in 0..n : 100 * j >= (n - 1) * p => k <= j

\* x stands at index k (counted from 0) of the ascending order of arr
AtSortedIndex(arr, k, x) ==
  /\ \E i \in DOMAIN arr : arr[i] = x
  /\ Cardinality({i \in DOMAIN arr : arr[i] < x}) <= k
  /\ k < Cardinality({i \in DOMAIN arr : arr[i] <= x})

\* C20: percentile returns 0 for an empty series and otherwise the element
\* at index ceil((n - 1) * p) of the series in ascending order; for
\* [10, 20, 30, 40, 50] it returns 30 at p = 0.5 and 50 at p = 0.95.
C20_PercentileIsCeilIndex ==
  pct.pc = "returned" =>
    /\ Len(pct.arr) = 0 => pct.out = 0
    /\ Len(pct.arr) > 0 =>
         AtSortedIndex(pct.arr, CeilIndex(Len(pct.arr), pct.p), pct.out)
    /\ (pct.arr = <<10, 20, 30, 40, 50>> /\ pct.p = 50) => pct.out = 30
    /\ (pct.arr = <<10, 20, 30, 40, 50>> /\ pct.p = 95) => pct.out = 50

\* percentile has returned 40 for an unsorted series of four at p = 0.5
C20_Witness ==
  /\ pct.pc = "returned"
  /\ pct.arr = <<40, 10, 50, 20>>
  /\ pct.p = 50
  /\ pct.out = 40

\* ------------------------------------------------------ claims C21..C30

\* C21: a percentile call leaves the array it was given as it was, and GET
\* /metrics leaves metrics.requestDuration and every series of
\* metrics.toolExecutionTime as they were, contents and order.
C21_MetricsReadOnly ==
  [][/\ (pct.pc = "call" /\ pct'.pc = "returned") => pct'.arr = pct.arr
     /\ (pct.pc \in {"call", "scrape"} /\ pct'.pc \in {"returned", "scraped"}) =>
          /\ requestDuration' = requestDuration
          /\ toolExecutionTime' = toolExecutionTime]_vars

\* GET /metrics was served from buffers that are not in ascending order
C21_Witness ==
  /\ pct.pc = "scraped"
  /\ requestDuration = <<40, 10, 50, 20>>
  /\ "calculate" \in DOMAIN toolExecutionTime
  /\ toolExecutionTime["calculate"] = <<40, 10, 50, 20>>
  /\ pct.text = <<40, 50, 50, 4, 40, 50, 50, 4>>

DividedByZero ==
  /\ inv.pc = "done"
  /\ inv.call.name = "calculate"
  /\ inv.call.op = "divide" /\ inv.call.b = 0

\* C22: a calculate that divides by zero is answered from an error with
\* the invalid-parameters code -32602, not the internal-error code -32603,
\* and its answer is the error's own message, not the message of the
\* internal-error path.
C22_DivideByZeroIsInvalidParams ==
  DividedByZero =>
    /\ inv.thrown.kind = "toolError"
    /\ inv.thrown.code = 0 - 32602
    /\ inv.thrown.code # 0 - 32603
    /\ \A i \in DOMAIN inv.wire :
         inv.wire[i].kind = "final" =>
           /\ inv.wire[i].isError
           /\ inv.wire[i].message = inv.thrown.message
           /\ inv.wire[i].message # GenericMessage

MalformedPost ==
  http.method = "POST" /\ http.path = "/mcp" /\ http.body = Malformed

C26_SameCapabilitiesEveryCall ==
  \A i, j \in DOMAIN proc.engines : proc.engines[i] = proc.engines[j]

\* C27: every engine exposes exactly the five tools, the five resources and
\* the three prompts.
C27_ExactCapabilitySet ==
  \A i \in DOMAIN proc.engines :
    LET e == proc.engines[i]
    IN  ~e.thrown =>
          /\ e.tools = {"calculate", "calculator_assistant", "demo_progress",
                        "explain_formula", "solve_math_problem"}
          /\ e.resources = {"calculator://constants", "calculator://history/{id}",
                            "calculator://stats", "formulas://library",
                            "request://current"}
          /\ e.prompts = {"calculator-tutor", "explain-calculation", "generate-problems"}

\* what the client sees of a finished request
Response(h) == [status |-> h.status, reply |-> h.reply, headers |-> h.headers]

\* the finished request as it stood when it reached its route, carrying the
\* session id sid instead of its own
AtRouteWith(h, sid) ==
  [h EXCEPT !.pc = "route", !.sessionId = sid, !.status = 0, !.reply = NoReply,
            !.headers = {"Access-Control-Allow-Origin"}, !.handler = "none",
            !.engines = 0]

C29_GetAndDeleteUnavailable ==
  (http.pc = "done" /\ http.path = "/mcp" /\ http.method \in {"GET", "DELETE"}
     /\ ~http.overLimit)
    => http.status \in {NOT_FOUND_STATUS, METHOD_NOT_ALLOWED}

\* the client of r went away while r's tool call was still executing
LeftDuringTool(r) ==
  /\ req[r].clientGone /\ req[r].dispatched # "no"
  /\ ~Before(r, "reply", "disconnect")

Exchanges ==
  limiter.seen \cup (IF http.pc = "done" /\ http.path = "/mcp"
                     THEN {exchange(http)} ELSE {})

SameRequest(x, y) == x.method = y.method /\ x.path = y.path /\ x.body = y.body

ClosedRequests == {r \in Reqs : req[r].closed}

\* C32: after k responses have closed, in whatever order the requests
\* completed, metrics.requestDuration holds min(1000, k) samples.
C32_OneSamplePerClosedRequest ==
  Len(requestDuration) =
    (IF Cardinality(ClosedRequests) < MetricsCapacity
     THEN Cardinality(ClosedRequests) ELSE MetricsCapacity)

\* the invocation has returned a result to the engine
ReturnedSuccessfully == inv.pc = "done" /\ inv.thrown = NoReply

\* C33: (server.ts) the series of metrics.toolExecutionTime hold one sample,
\* in the series 'calculate', once a calculate invocation has returned
\* successfully, and nothing before that, after a failing calculate, or
\* after an invocation of another tool.
C33_ToolSampleIffCalculateSucceeds ==
  build = "server" =>
    IF inv.call # NoBody /\ inv.call.name = "calculate" /\ ReturnedSuccessfully
    THEN /\ DOMAIN toolExecutionTime = {"calculate"}
         /\ Len(toolExecutionTime["calculate"]) = 1
    ELSE toolExecutionTime = NoSeries

\* a calculate with stream has recorded its time on returning
C33_Witness ==
  /\ build = "server" /\ ReturnedSuccessfully
  /\ inv.call.name = "calculate" /\ inv.call.stream
  /\ toolExecutionTime \in {[n \in {"calculate"} |-> <<d>>] : d \in Durations}

\* C34: a calculate invocation that does not divide by zero returns a
\* result, whatever its precision.
C34_ValidCalculateSucceeds ==
  (inv.pc = "done" /\ inv.call.name = "calculate"
     /\ ~(inv.call.op = "divide" /\ inv.call.b = 0))
    => inv.thrown = NoReply

Elements(arr) == {arr[i] : i \in DOMAIN arr}

Least(arr) == CHOOSE x \in Elements(arr) : \A y \in Elements(arr) : x <= y

Greatest(arr) == CHOOSE x \in Elements(arr) : \A y \in Elements(arr) : x >= y

\* C35: on a non-empty series every call of percentile returns an element
\* of the series, the least one for p = 0 and the greatest for p = 1, and
\* of two calls the one with the larger p returns the larger or equal value.
C35_PercentileOrderStatistic ==
  Len(pct.arr) > 0 =>
    /\ \A i \in DOMAIN pct.calls :
         /\ pct.calls[i][2] \in Elements(pct.arr)
         /\ pct.calls[i][1] = 0 => pct.calls[i][2] = Least(pct.arr)
         /\ pct.calls[i][1] = 100 => pct.calls[i][2] = Greatest(pct.arr)
    /\ \A i, j \in DOMAIN pct.calls :
         pct.calls[i][1] <= pct.calls[j][1] => pct.calls[i][2] <= pct.calls[j][2]

\* a series that is not sorted and holds different values was asked for
\* p = 1 and then for p = 0
C35_Witness ==
  /\ pct.arr = <<20, 30, 10>>
  /\ pct.calls = <<(<<100, 30>>), (<<0, 10>>)>>

\* the decimal numerals of 1 .. 10
OneToTen ==
  {<<"1">>, <<"2">>, <<"3">>, <<"4">>, <<"5">>, <<"6">>, <<"7">>, <<"8">>, <<"9">>,
   <<"1", "0">>}

\* C36: the number of problems stated in the prompt text is an integer
\* between 1 and 10, whatever the count argument.
C36_ProblemCountWithinRange ==
  prompt.pc = "returned" => prompt.stated \in OneToTen

\* ctx is the context a with the entries of b added or put in place of a's
MergedFrom(ctx, a, b) ==
  /\ DOMAIN ctx = DOMAIN a \cup DOMAIN b
  /\ \A k \in DOMAIN b : ctx[k] = b[k]
  /\ \A k \in DOMAIN a \ DOMAIN b : ctx[k] = a[k]

\* C37: the context of every Logger made by withContext is its receiver's
\* context merged with the argument, the argument's keys winning, the
\* receiver's context being what it was before the call; the global logger's
\* context is empty, so a Logger made from it holds its argument only.
C37_WithContextLeavesReceiver ==
  /\ DOMAIN loggers[1].context = {}
  /\ \A i \in DOMAIN loggers :
       i > 1 =>
         /\ loggers[i].from < i
         /\ MergedFrom(loggers[i].context, loggers[loggers[i].from].context, loggers[i].arg)
         /\ loggers[i].from = 1 => loggers[i].context = loggers[i].arg

\* a Logger was made from a request's Logger with another requestId: the
\* new one holds the argument's id, the receiver still its own
C37_Witness ==
  \E i, j \in DOMAIN loggers :
    /\ loggers[j].from = i /\ loggers[i].from = 1
    /\ "requestId" \in DOMAIN loggers[i].context
    /\ "requestId" \in DOMAIN loggers[j].arg
    /\ loggers[i].context["requestId"] = "6fa1"
    /\ loggers[j].context["requestId"] = "c0de"
    /\ "tool" \in DOMAIN loggers[j].context
    /\ "tool" \notin DOMAIN loggers[i].context

\* C38: a request within the client's quota whose Content-Length exceeds
\* 1,048,576 is answered 413 with a JSON-RPC error before its body is
\* parsed and before any handler runs or any engine is created; a
\* Content-Length of exactly 1,048,576 is not answered 413.
C38_OversizeRejectedBeforeParsing ==
  (http.pc = "done" /\ ~http.overLimit) =>
    /\ http.contentLength > MAX_REQUEST_SIZE =>
         /\ http.status = REQUEST_TOO_LARGE /\ http.reply.kind = "jsonrpcError"
         /\ ~http.parsed /\ http.handler = "none" /\ http.engines = 0
    /\ http.contentLength = MAX_REQUEST_SIZE => http.status # REQUEST_TOO_LARGE

\* C39: every SIGTERM or SIGINT is eventually followed by the exit of the
\* process with code 0, whatever the connections of the server carry when
\* the signal arrives and whether or not a second signal follows.
C39_SignalLeadsToExit ==
  (Len(httpServer.signals) > 0) ~> (httpServer.exitCode = 0)

====
